---- MODULE Spec2Model ----
(***************************************************************************)
(* A model of the variational diffusion model for point clouds:            *)
(*   src/models/diffusion.py   VariationalDiffusionModel (setup, embed,    *)
(*                             encode, decode, the three losses, __call__, *)
(*                             sample_step)                                *)
(*   src/models/likelihood.py  elbo (unrolled and fori_loop integration)   *)
(*                                                                         *)
(* Reals are exact rationals <<numerator, denominator>> in lowest terms,   *)
(* with <<0, 0>> standing for a non-finite value (NaN); generator keys are *)
(* paths in the tree that split / fold_in grow from a seed.                *)
(***************************************************************************)
EXTENDS Integers, Sequences, FiniteSets, TLC

\* ------------------------------------------------------------------------
\* Bounds of the model
\* ------------------------------------------------------------------------
MaxT == 2          \* timesteps is drawn from -1 .. MaxT
MaxClasses == 1    \* n_classes is drawn from 0 .. MaxClasses
MaxWidth == 2      \* conditioning vectors have width 0 .. MaxWidth
Fine == 4          \* raw times are k / Fine, k in 0 .. Fine - 1
MaxSteps == 3      \* elbo's steps is drawn from 1 .. MaxSteps
MaxSeed == 1       \* seeds are 0 .. MaxSeed
MaxGamma == 3      \* schedule endpoints are drawn from -MaxGamma .. MaxGamma
MaxB == 2          \* shapes: the batch axis has 1 .. MaxB entries
MaxN == 4          \* shapes: the point axis has 1 .. MaxN entries
MaxD == 3          \* shapes: d_feature is drawn from 1 .. MaxD
MaxE == 2          \* shapes: d_embedding is drawn from 1 .. MaxE

\* Program constants (the dataclass defaults)
gamma_min_default == -3
gamma_max_default == 3

Batch == {1, 2}    \* indices of the batch axis
Points == {1, 2}   \* indices of the point axis (one feature per point)

\* ------------------------------------------------------------------------
\* Arithmetic: rationals with NaN
\* ------------------------------------------------------------------------
Abs(n) == IF n < 0 THEN -n ELSE n

RECURSIVE GCD(_, _)
GCD(a, b) == IF b = 0 THEN a ELSE GCD(b, a % b)

NaN == <<0, 0>>
IsNaN(a) == a[2] = 0

\* n / d in lowest terms with a positive denominator; anything over 0 is NaN
Rat(n, d) ==
    IF d = 0 THEN NaN
    ELSE LET g == GCD(Abs(n), Abs(d))
             s == IF d < 0 THEN -1 ELSE 1
         IN  <<(s * n) \div g, (s * d) \div g>>

Int2R(n) == <<n, 1>>
Zero == <<0, 1>>
One == <<1, 1>>

\* over the least common denominator, to keep the integers small
RAdd(a, b) == IF IsNaN(a) \/ IsNaN(b) THEN NaN
              ELSE LET g == GCD(a[2], b[2])
                   IN  Rat(a[1] * (b[2] \div g) + b[1] * (a[2] \div g),
                           a[2] * (b[2] \div g))
RNeg(a) == IF IsNaN(a) THEN NaN ELSE <<-a[1], a[2]>>
RSub(a, b) == RAdd(a, RNeg(b))
\* IEEE: NaN * 0 is NaN
RMul(a, b) == IF IsNaN(a) \/ IsNaN(b) THEN NaN
              ELSE LET g == GCD(Abs(a[1]), b[2])
                       h == GCD(Abs(b[1]), a[2])
                   IN  Rat((a[1] \div g) * (b[1] \div h),
                           (a[2] \div h) * (b[2] \div g))
RDiv(a, b) == IF IsNaN(a) \/ IsNaN(b) \/ b[1] = 0 THEN NaN
              ELSE RMul(a, Rat(b[2], b[1]))
\* comparisons with NaN are false
RLe(a, b) == ~IsNaN(a) /\ ~IsNaN(b) /\ a[1] * b[2] <= b[1] * a[2]
RLt(a, b) == ~IsNaN(a) /\ ~IsNaN(b) /\ a[1] * b[2] < b[1] * a[2]
RSquare(a) == RMul(a, a)
\* ceil of a finite rational, as a rational
RCeil(a) == IF IsNaN(a) THEN NaN ELSE Int2R(-((-a[1]) \div a[2]))

\* sum of f[k] over the finite set S, in increasing order of k
RECURSIVE RSum(_, _)
RSum(f, S) ==
    IF S = {} THEN Zero
    ELSE LET k == CHOOSE m \in S : \A n \in S : m <= n
         IN  RAdd(f[k], RSum(f, S \ {k}))

\* ------------------------------------------------------------------------
\* State
\* ------------------------------------------------------------------------
VARIABLES
    cfg,              \* the dataclass fields of the VariationalDiffusionModel
    constructed,      \* setup has run
    gamma,            \* self.gamma: the schedule setup bound, or "unset"
    embedding_class,  \* self.embedding_class exists
    frame,            \* the running (or last) method call on the model
    ein,              \* the arguments of the elbo calls under way
    elbo,             \* per loop strategy (unroll_loop), the elbo call's locals
    sin,              \* the arguments of the sampler runs under way
    sam,              \* per run, the sampler's step index and latent
    sch,              \* the last evaluation of the schedule at two times
    shp               \* the shapes of the last call's argument and results

modelVars == <<cfg, constructed, gamma, embedding_class>>
elboVars == <<ein, elbo>>
samplerVars == <<sin, sam>>
vars == <<cfg, constructed, gamma, embedding_class, frame, ein, elbo, sin, sam, sch, shp>>

\* ------------------------------------------------------------------------
\* Configuration and inputs
\* ------------------------------------------------------------------------
ScheduleNames == {"learned_linear", "scalar", "cosine"}

Configs ==
    [timesteps : -1 .. MaxT,
     gamma_min : {gamma_min_default},
     gamma_max : {gamma_max_default},
     noise_schedule : ScheduleNames,
     antithetic_time_sampling : BOOLEAN,
     latent_diffusion : BOOLEAN,
     n_classes : 0 .. MaxClasses]

\* A conditioning input: None, or one vector (shared by the batch) whose
\* first element is the class slot when classes are configured.
None == [present |-> FALSE, vec |-> <<>>]
Vectors == UNION {[1 .. w -> {0, 1}] : w \in 0 .. MaxWidth}
Conditionings == {None} \cup {[present |-> TRUE, vec |-> v] : v \in Vectors}

\* ------------------------------------------------------------------------
\* setup
\* ------------------------------------------------------------------------
\* A schedule object: its kind, the two endpoints it was built with and,
\* for the scalar schedule, its learned slope a >= 0 (a*t + b, b = gamma_min)
Schedule(kind, gmin, gmax) ==
    [kind |-> kind, gamma_min |-> gmin, gamma_max |-> gmax, a |-> gmax - gmin]
Unset == [kind |-> "unset", gamma_min |-> 0, gamma_max |-> 0, a |-> 0]

\* setup with the two endpoints handed to the schedule in the wrong order
setup_gamma_swapped(c) ==
    IF c.noise_schedule = "learned_linear"
    THEN Schedule("NoiseScheduleFixedLinear", c.gamma_max, c.gamma_min)
    ELSE IF c.noise_schedule = "scalar"
    THEN Schedule("NoiseScheduleScalar", c.gamma_max, c.gamma_min)
    ELSE Unset

\* lines 112-115: an if / elif with no else; an unknown name binds nothing
setup_gamma(c) ==
    IF c.noise_schedule = "learned_linear"
    THEN Schedule("NoiseScheduleFixedLinear", c.gamma_min, c.gamma_max)
    ELSE IF c.noise_schedule = "scalar"
    THEN Schedule("NoiseScheduleScalar", c.gamma_min, c.gamma_max)
    ELSE Unset

\* lines 127-128
setup_embedding_class(c) == c.n_classes > 0

\* setup reads timesteps nowhere and raises nowhere
setup ==
    /\ ~constructed
    /\ constructed' = TRUE
    /\ gamma' = setup_gamma(cfg)
    /\ embedding_class' = setup_embedding_class(cfg)
    /\ UNCHANGED <<cfg, frame, elboVars, samplerVars, sch, shp>>

\* ------------------------------------------------------------------------
\* embed
\* ------------------------------------------------------------------------
RECURSIVE SeqSum(_)
SeqSum(v) == IF v = <<>> THEN 0 ELSE Head(v) + SeqSum(Tail(v))

\* nn.Embed lookup of a class id and nn.Dense of a context vector: the
\* weights are opaque, so each is a fixed injective-enough integer map whose
\* ranges do not meet (class embeddings are multiples of 100)
class_embedding(c) == 100 * (c + 1)
context_embedding(v) == 1 + Len(v) + 10 * SeqSum(v)

EmbValue(n) == [tag |-> "value", val |-> n]
EmbNone == [tag |-> "None", val |-> 0]
EmbRaise == [tag |-> "AttributeError", val |-> 0]

\* lines 210-222.  `conditioning.shape` is read in the first two tests as
\* soon as n_classes > 0, before anything asks whether conditioning is None.
embed(c, conditioning) ==
    IF c.n_classes > 0
    THEN IF ~conditioning.present THEN EmbRaise
         ELSE IF Len(conditioning.vec) > 1
              THEN EmbValue(class_embedding(Head(conditioning.vec))
                            + context_embedding(Tail(conditioning.vec)))
         ELSE IF Len(conditioning.vec) = 1
              THEN EmbValue(class_embedding(Head(conditioning.vec)))
         ELSE EmbNone
    ELSE IF c.n_classes = 0 /\ conditioning.present
         THEN EmbValue(context_embedding(conditioning.vec))
         ELSE EmbNone

\* lines 226-229 (encode) and 234-237 (decode): embed is called again
\* whenever the raw conditioning is not None
encode_embed(c, conditioning) ==
    IF conditioning.present THEN embed(c, conditioning) ELSE EmbNone
encode_embed_calls(conditioning) == IF conditioning.present THEN 1 ELSE 0
decode_embed(c, conditioning) ==
    IF conditioning.present THEN embed(c, conditioning) ELSE EmbNone
decode_embed_calls(conditioning) == IF conditioning.present THEN 1 ELSE 0

\* ------------------------------------------------------------------------
\* __call__(x, conditioning, mask), one action per statement
\* ------------------------------------------------------------------------
RFloor(a) == IF IsNaN(a) THEN NaN ELSE Int2R(a[1] \div a[2])
RMod1(a) == RSub(a, RFloor(a))

RawTimes == {Rat(k, Fine) : k \in 0 .. Fine - 1}

\* line 193: t0 + arange(0, 1, 1 / d_batch), mod 1
antithetic(t0) ==
    [b \in Batch |-> RMod1(RAdd(t0, Rat(b - 1, Cardinality(Batch))))]

\* the snap taken downwards: floor(t * T) / T
discretize_floor(t, T) == RDiv(RFloor(RMul(t, Int2R(T))), Int2R(T))

\* line 199: ceil(t * T) / T, in floating point (x / 0 is not an exception)
discretize(t, T) == RDiv(RCeil(RMul(t, Int2R(T))), Int2R(T))

Resting == {"idle", "returned", "raised"}

NewFrame(o, conditioning) ==
    [op |-> o, pc |-> "idle", conditioning |-> conditioning,
     embed_calls |-> 0, encoder_calls |-> 0, decoder_calls |-> 0,
     T |-> 0, raw |-> [b \in Batch |-> Zero],
     t |-> [b \in Batch |-> Zero], discretized |-> FALSE,
     gamma_times |-> {}, err |-> "", ret |-> EmbNone]

Raise(f, e) == [f EXCEPT !.pc = "raised", !.err = e]

\* self.gamma(...) on a model whose setup bound no schedule
gamma_missing == gamma.kind = "unset"

call_begin ==
    /\ constructed
    /\ frame.pc \in Resting
    /\ \E conditioning \in Conditionings :
          frame' = [NewFrame("__call__", conditioning) EXCEPT !.pc = "encode"]
    /\ UNCHANGED <<modelVars, elboVars, samplerVars, sch, shp>>

\* line 181: f = self.encode(x, conditioning)
call_encode ==
    /\ frame.op = "__call__" /\ frame.pc = "encode"
    /\ frame' = [frame EXCEPT
          !.embed_calls = @ + encode_embed_calls(frame.conditioning),
          !.encoder_calls = @ + 1,
          !.pc = "recon_loss"]
    /\ UNCHANGED <<modelVars, elboVars, samplerVars, sch, shp>>

\* line 182: recon_loss reads gamma(0.0), then decodes with the raw
\* conditioning, which decode embeds once more
call_recon_loss ==
    /\ frame.op = "__call__" /\ frame.pc = "recon_loss"
    /\ frame' =
          IF gamma_missing THEN Raise(frame, "AttributeError")
          ELSE [frame EXCEPT
                  !.gamma_times = @ \cup {Zero},
                  !.embed_calls = @ + decode_embed_calls(frame.conditioning),
                  !.decoder_calls = @ + 1,
                  !.pc = "latent_loss"]
    /\ UNCHANGED <<modelVars, elboVars, samplerVars, sch, shp>>

\* line 186
call_latent_loss ==
    /\ frame.op = "__call__" /\ frame.pc = "latent_loss"
    /\ frame' = [frame EXCEPT !.gamma_times = @ \cup {One}, !.pc = "sample_t"]
    /\ UNCHANGED <<modelVars, elboVars, samplerVars, sch, shp>>

\* lines 190-199: draw the times, then snap them with T = self.timesteps
call_sample_t ==
    /\ frame.op = "__call__" /\ frame.pc = "sample_t"
    /\ \E raw \in (IF cfg.antithetic_time_sampling
                   THEN {antithetic(t0) : t0 \in RawTimes}
                   ELSE [Batch -> RawTimes]) :
          frame' = [frame EXCEPT
              !.T = cfg.timesteps,
              !.raw = raw,
              !.t = [b \in Batch |-> discretize(raw[b], cfg.timesteps)],
              !.discretized = TRUE,
              !.pc = "embed"]
    /\ UNCHANGED <<modelVars, elboVars, samplerVars, sch, shp>>

\* line 201: cond = self.embed(conditioning)
call_embed ==
    /\ frame.op = "__call__" /\ frame.pc = "embed"
    /\ LET e == embed(cfg, frame.conditioning)
       IN  frame' =
             IF e.tag = "AttributeError"
             THEN Raise([frame EXCEPT !.embed_calls = @ + 1], "AttributeError")
             ELSE [frame EXCEPT !.embed_calls = @ + 1, !.ret = e,
                                !.pc = "diffusion_loss"]
    /\ UNCHANGED <<modelVars, elboVars, samplerVars, sch, shp>>

\* line 202, lines 160-172: gamma(t), then s = t - 1.0 / T with T a Python
\* int (1.0 / 0 raises ZeroDivisionError), then gamma(s)
call_diffusion_loss ==
    /\ frame.op = "__call__" /\ frame.pc = "diffusion_loss"
    /\ frame' =
          IF frame.T = 0
          THEN Raise([frame EXCEPT
                        !.gamma_times = @ \cup {frame.t[b] : b \in Batch}],
                     "ZeroDivisionError")
          ELSE [frame EXCEPT
                  !.gamma_times = @ \cup {frame.t[b] : b \in Batch}
                        \cup {RSub(frame.t[b], Rat(1, frame.T)) : b \in Batch},
                  !.pc = "return"]
    /\ UNCHANGED <<modelVars, elboVars, samplerVars, sch, shp>>

\* line 204
call_return ==
    /\ frame.op = "__call__" /\ frame.pc = "return"
    /\ frame' = [frame EXCEPT !.pc = "returned"]
    /\ UNCHANGED <<modelVars, elboVars, samplerVars, sch, shp>>

\* a direct call of embed(conditioning) on the constructed model
embed_call ==
    /\ constructed
    /\ frame.pc \in Resting
    /\ \E conditioning \in Conditionings :
          LET e == embed(cfg, conditioning)
              f == [NewFrame("embed", conditioning) EXCEPT !.embed_calls = 1]
          IN  frame' = IF e.tag = "AttributeError"
                       THEN Raise(f, "AttributeError")
                       ELSE [f EXCEPT !.ret = e, !.pc = "returned"]
    /\ UNCHANGED <<modelVars, elboVars, samplerVars, sch, shp>>

\* ------------------------------------------------------------------------
\* Generator keys (jax.random): a key is the path from its seed
\* ------------------------------------------------------------------------
PRNGKey(seed) == <<seed>>
\* jax.random.split(key): two fresh keys, in the order they are unpacked
split(key) == <<Append(key, 0), Append(key, 1)>>
\* jax.random.fold_in(key, data)
fold_in(key, data) == Append(key, 2 + data)
\* flax make_rng("sample") inside one apply: the first (and only) request
make_rng(key) == Append(key, -1)

RECURSIVE KeyHash(_)
KeyHash(key) ==
    IF key = <<>> THEN 7
    ELSE (31 * KeyHash(SubSeq(key, 1, Len(key) - 1)) + key[Len(key)] + 3) % 101

\* jax.random.normal(key, shape): a value per (batch, point), fixed by the key
normal(key) ==
    [b \in Batch |-> [p \in Points |->
        Int2R(((KeyHash(key) + 3 * b + 5 * p) % 5) - 2)]]

\* ------------------------------------------------------------------------
\* Schedule and forward process (models/diffusion_utils.py)
\* ------------------------------------------------------------------------
\* gamma(t) = gamma_min + (gamma_max - gamma_min) * t
NoiseScheduleFixedLinear(g, t) ==
    RAdd(Int2R(g.gamma_min), RMul(Int2R(g.gamma_max - g.gamma_min), t))
\* gamma(t) = a * t + b
NoiseScheduleScalar(g, t) ==
    RAdd(RMul(Int2R(g.a), t), Int2R(g.gamma_min))

\* lines 131-132: self.gamma(t), for a model whose setup bound a schedule
gammat(t) ==
    IF gamma.kind = "NoiseScheduleScalar" THEN NoiseScheduleScalar(gamma, t)
    ELSE NoiseScheduleFixedLinear(gamma, t)

\* rational stand-ins for the transcendental functions: monotone, with the
\* sign, the range and the symmetry of the function they stand for
sigmoid(g) ==
    IF IsNaN(g) THEN NaN
    ELSE IF RLt(g, Zero) THEN Rat(1, 4)
    ELSE IF RLt(Zero, g) THEN Rat(3, 4)
    ELSE Rat(1, 2)
expm1(x) ==
    IF IsNaN(x) THEN NaN
    ELSE IF RLt(x, Zero) THEN RDiv(x, RSub(One, x))
    ELSE RMul(x, RAdd(One, RDiv(x, Int2R(2))))

sigma2(g) == sigmoid(g)
\* alpha and sqrt(sigma2) with the square roots left out
alpha(g) == sigmoid(RNeg(g))
variance_preserving_map(f, g, eps) ==
    RAdd(RMul(alpha(g), f), RMul(sigma2(g), eps))

\* ------------------------------------------------------------------------
\* Encoder, Decoder, ScoreNet and the three losses
\* ------------------------------------------------------------------------
EmbScalar(e) == IF e.tag = "value" THEN Int2R(e.val) ELSE Zero

\* lines 42-47: the identity unless latent_diffusion; the dense stack is an
\* affine stand-in
Encoder(c, x, cond) ==
    [b \in Batch |-> [p \in Points |->
        IF c.latent_diffusion
        THEN RAdd(RMul(Int2R(2), x[b][p]), EmbScalar(cond))
        ELSE x[b][p]]]

\* lines 58-63: the mean of the Normal the decoder returns
Decoder(c, z, cond) ==
    [b \in Batch |-> [p \in Points |->
        IF c.latent_diffusion
        THEN RAdd(RDiv(z[b][p], Int2R(2)), EmbScalar(cond))
        ELSE z[b][p]]]

\* lines 224-230
encode(c, x, conditioning) == Encoder(c, x, encode_embed(c, conditioning))
\* lines 232-238
decode(c, z0, conditioning) == Decoder(c, z0, decode_embed(c, conditioning))

\* lines 72-91: z + h, where h (the transformer) sees the embedded noise
\* level and conditioning and attends to the valid points
ScoreNet(z, g_t, cond, mask) ==
    [b \in Batch |-> [p \in Points |->
        RAdd(z[b][p],
             RAdd(RAdd(RFloor(g_t), EmbScalar(cond)),
                  RSum([q \in Points |-> z[b][q]],
                       {q \in Points : mask[b][q]})))]]

\* lines 138-143: -log_prob(x) of Normal(loc, scale), without its constants
recon_loss(c, x, f, conditioning, key) ==
    LET g_0 == gammat(Zero)
        eps_0 == normal(make_rng(key))
        z_0_rescaled == [b \in Batch |-> [p \in Points |->
            RDiv(variance_preserving_map(f[b][p], g_0, eps_0[b][p]), alpha(g_0))]]
        loc == decode(c, z_0_rescaled, conditioning)
    IN  [b \in Batch |-> [p \in Points |->
            RDiv(RSquare(RSub(x[b][p], loc[b][p])), Int2R(2))]]

\* lines 150-154, with log(v) taken as v - 1
latent_loss(c, f) ==
    LET var_1 == sigma2(gammat(One))
    IN  [b \in Batch |-> [p \in Points |->
            RDiv(RMul(RSub(One, var_1), RSquare(f[b][p])), Int2R(2))]]

\* lines 160-173, t one time shared by the batch
\* lines 169-170: T = self.timesteps; s = t - (1.0 / T)
diffusion_loss_s(c, t) == RSub(t, Rat(1, c.timesteps))

\* line 172: 0.5 * T * np.expm1(g_s - g_t)
diffusion_loss_weight(T, g_s, g_t) == RMul(Rat(T, 2), expm1(RSub(g_s, g_t)))

diffusion_loss(c, t, f, cond, mask, key) ==
    LET g_t == gammat(t)
        eps == normal(make_rng(key))
        z_t == [b \in Batch |-> [p \in Points |->
                  variance_preserving_map(f[b][p], g_t, eps[b][p])]]
        eps_hat == ScoreNet(z_t, g_t, cond, mask)
        T == c.timesteps
        s == diffusion_loss_s(c, t)
        g_s == gammat(s)
        w == diffusion_loss_weight(T, g_s, g_t)
    IN  [b \in Batch |-> [p \in Points |->
            RMul(w, RSquare(RSub(eps[b][p], eps_hat[b][p])))]]

\* ------------------------------------------------------------------------
\* elbo(vdm, params, rng, x, conditioning, mask, steps, unroll_loop)
\* ------------------------------------------------------------------------
Strategy == BOOLEAN   \* the value of unroll_loop

\* The two calls share no state, so how they interleave is immaterial: they
\* are advanced alternately, the unrolled call first.
Progress(e) ==
    IF e.pc = "start" THEN 0
    ELSE IF e.pc = "loop" THEN 1 + e.i
    ELSE 2 + ein.steps
MayStep(u) ==
    IF u THEN Progress(elbo[TRUE]) <= Progress(elbo[FALSE])
    ELSE Progress(elbo[FALSE]) < Progress(elbo[TRUE])

\* (loss * mask[..., None]).sum((-1, -2)): False is 0, True is 1
masked_sum(loss, mask) ==
    [b \in Batch |->
        RSum([p \in Points |->
                 RMul(loss[b][p], IF mask[b][p] THEN One ELSE Zero)], Points)]

Zeros == [b \in Batch |-> Zero]
ZeroField == [b \in Batch |-> [p \in Points |-> Zero]]

IdleElbo ==
    [pc |-> "idle", rng |-> <<>>, spl |-> <<>>, cond |-> EmbNone,
     f |-> ZeroField, loss_recon |-> ZeroField, loss_klz |-> ZeroField,
     i |-> 0, loss_diff |-> Zeros, handed |-> <<>>,
     drawn |-> <<>>, was_split |-> {}, gamma_times |-> {},
     embed_calls |-> 0, encoder_calls |-> 0, recon_calls |-> 0,
     latent_calls |-> 0, ret |-> Zero]

\* lines 8-12
elbo_prologue(u) ==
    /\ elbo[u].pc = "start"
    /\ MayStep(u)
    /\ LET keys == split(ein.rng)
           rng == keys[1]
           spl == keys[2]
           cond == embed(cfg, ein.conditioning)
           f == encode(cfg, ein.x, ein.conditioning)
       IN  elbo' = [elbo EXCEPT ![u] =
             IF cond.tag = "AttributeError"
             THEN [@ EXCEPT !.pc = "raised", !.rng = rng, !.spl = spl,
                            !.was_split = {ein.rng},
                            !.embed_calls = 1]
             ELSE [@ EXCEPT
                     !.pc = "loop", !.rng = rng, !.spl = spl,
                     !.cond = cond,
                     !.f = f,
                     !.loss_recon =
                         recon_loss(cfg, ein.x, f, ein.conditioning, rng),
                     !.loss_klz = latent_loss(cfg, f),
                     !.was_split = {ein.rng},
                     !.drawn = <<rng>>,
                     !.gamma_times = {Zero, One},
                     !.embed_calls = 1 + encode_embed_calls(ein.conditioning)
                                       + decode_embed_calls(ein.conditioning),
                     !.encoder_calls = 1,
                     !.recon_calls = 1,
                     !.latent_calls = 1,
                     !.i = 0,
                     !.loss_diff = Zeros]]
    /\ UNCHANGED <<modelVars, frame, ein, samplerVars, sch, shp>>

\* body_fun with the carried key handed to diffusion_loss in place of the
\* sub-key the split produced
body_fun_carried_key(i, val) ==
    LET loss == val[1]
        keys == split(val[2])
        rng == keys[1]
        new_loss == diffusion_loss(cfg, Rat(i, ein.steps), elbo[FALSE].f,
                                   elbo[FALSE].cond, ein.mask, rng)
        term == masked_sum(new_loss, ein.mask)
    IN  <<[b \in Batch |-> RAdd(loss[b], RDiv(term[b], Int2R(ein.steps)))],
          rng, rng>>

\* lines 16-20: body_fun(i, val) of the fori_loop
body_fun(i, val) ==
    LET loss == val[1]
        keys == split(val[2])
        rng == keys[1]
        spl == keys[2]
        new_loss == diffusion_loss(cfg, Rat(i, ein.steps), elbo[FALSE].f,
                                   elbo[FALSE].cond, ein.mask, spl)
        term == masked_sum(new_loss, ein.mask)
    IN  <<[b \in Batch |-> RAdd(loss[b], RDiv(term[b], Int2R(ein.steps)))],
          rng, spl>>

\* line 22: one trip of jax.lax.fori_loop(0, steps, body_fun, (zeros, rng))
elbo_fori_loop ==
    /\ elbo[FALSE].pc = "loop"
    /\ elbo[FALSE].i < ein.steps
    /\ MayStep(FALSE)
    /\ LET val == body_fun(elbo[FALSE].i, <<elbo[FALSE].loss_diff, elbo[FALSE].rng>>)
       IN  elbo' = [elbo EXCEPT ![FALSE] =
             [@ EXCEPT !.loss_diff = val[1], !.rng = val[2], !.spl = val[3],
                       !.handed = Append(@, <<val[3], Rat(elbo[FALSE].i, ein.steps)>>),
                       !.was_split = @ \cup {elbo[FALSE].rng},
                       !.drawn = Append(@, val[3]),
                       !.gamma_times = @ \cup
                           {Rat(elbo[FALSE].i, ein.steps),
                            diffusion_loss_s(cfg, Rat(elbo[FALSE].i, ein.steps))},
                       !.i = @ + 1]]
    /\ UNCHANGED <<modelVars, frame, ein, samplerVars, sch, shp>>

\* lines 27-30: one iteration of the Python for loop
elbo_unrolled ==
    /\ elbo[TRUE].pc = "loop"
    /\ elbo[TRUE].i < ein.steps
    /\ MayStep(TRUE)
    /\ LET e == elbo[TRUE]
           keys == split(e.rng)
           rng == keys[1]
           spl == keys[2]
           t == Rat(e.i, ein.steps)
           new_loss == diffusion_loss(cfg, t, e.f, e.cond, ein.mask, spl)
           term == masked_sum(new_loss, ein.mask)
       IN  elbo' = [elbo EXCEPT ![TRUE] =
             [@ EXCEPT
                 !.rng = rng, !.spl = spl,
                 !.loss_diff = [b \in Batch |->
                     RAdd(e.loss_diff[b], RDiv(term[b], Int2R(ein.steps)))],
                 !.handed = Append(@, <<spl, t>>),
                 !.was_split = @ \cup {e.rng},
                 !.drawn = Append(@, spl),
                 !.gamma_times = @ \cup {t, diffusion_loss_s(cfg, t)},
                 !.i = @ + 1]]
    /\ UNCHANGED <<modelVars, frame, ein, samplerVars, sch, shp>>

\* line 32
vlb_loss(e) ==
    LET r == masked_sum(e.loss_recon, ein.mask)
        k == masked_sum(e.loss_klz, ein.mask)
    IN  [b \in Batch |-> RAdd(RAdd(r[b], k[b]), e.loss_diff[b])]

\* the batch reduced by .sum() in place of .mean()
batch_total(v) == RSum(v, Batch)

\* line 33
batch_mean(v) == RDiv(RSum(v, Batch), Int2R(Cardinality(Batch)))

\* lines 32-33
elbo_return(u) ==
    /\ elbo[u].pc = "loop"
    /\ elbo[u].i = ein.steps
    /\ MayStep(u)
    /\ elbo' = [elbo EXCEPT ![u] =
          [@ EXCEPT !.pc = "returned", !.ret = RNeg(batch_mean(vlb_loss(elbo[u])))]]
    /\ UNCHANGED <<modelVars, frame, ein, samplerVars, sch, shp>>

\* ------------------------------------------------------------------------
\* sample_step and the T-step sampler
\* ------------------------------------------------------------------------
Runs == {1, 2}

\* np.sqrt with the root left out: NaN below zero
Sqrt(x) == IF IsNaN(x) \/ RLt(x, Zero) THEN NaN ELSE x

\* the step's key taken from a count of the steps made so far by every run,
\* in place of the step index
rng_body_counted(rng, i) == fold_in(rng, sam[1].i + sam[2].i)

\* line 242
rng_body(rng, i) == fold_in(rng, i)

\* line 244: t = (T - i) / T
sample_step_t(i, T) == Rat(T - i, T)

\* the lower time taken two grid cells below t
sample_step_s_skipping(i, T) == Rat(T - i - 2, T)

\* line 245: s = (T - i - 1) / T
sample_step_s(i, T) == Rat(T - i - 1, T)

\* line 256: c = -np.expm1(g_t - g_s)
sample_step_c(g_s, g_t) == RNeg(expm1(RSub(g_t, g_s)))

\* lines 242-260; embed raises for absent conditioning with classes configured
sample_step(rng, i, T, z_t, conditioning, mask) ==
    LET key == rng_body(rng, i)
        eps == normal(key)
        t == sample_step_t(i, T)
        s == sample_step_s(i, T)
        g_s == gammat(s)
        g_t == gammat(t)
        cond == embed(cfg, conditioning)
        eps_hat_cond == ScoreNet(z_t, g_t, cond, mask)
        a == sigmoid(g_s)
        b == sigmoid(g_t)
        c == sample_step_c(g_s, g_t)
        sigma_t == Sqrt(sigma2(g_t))
    IN  [raised |-> cond.tag = "AttributeError",
         key |-> key,
         eps |-> eps,
         t |-> t,
         s |-> s,
         c |-> c,
         radicand |-> RMul(RSub(One, a), c),
         z_s |-> [m \in Batch |-> [p \in Points |->
             RAdd(RMul(Sqrt(RDiv(a, b)),
                       RSub(z_t[m][p],
                            RMul(RMul(sigma_t, c), eps_hat_cond[m][p]))),
                  RMul(Sqrt(RMul(RSub(One, a), c)), eps[m][p]))]]]

IdleRun == [pc |-> "idle", i |-> 0, z |-> ZeroField, trajectory |-> <<>>]

\* one step of a run: z_t to z_s with the run's seed and the next index
sampler_step(r) ==
    /\ sam[r].pc = "run"
    /\ sam[r].i < sin.T
    /\ LET o == sample_step(sin.rng, sam[r].i, sin.T, sam[r].z,
                            sin.conditioning, sin.mask)
       IN  sam' = [sam EXCEPT ![r] =
             IF o.raised THEN [@ EXCEPT !.pc = "raised"]
             ELSE [@ EXCEPT
                     !.i = @ + 1,
                     !.z = o.z_s,
                     !.trajectory = Append(@, [key |-> o.key, eps |-> o.eps,
                                               t |-> o.t, s |-> o.s,
                                               c |-> o.c,
                                               radicand |-> o.radicand,
                                               z |-> o.z_s])]]
    /\ UNCHANGED <<modelVars, frame, elboVars, sin, sch, shp>>

\* after T steps the run holds z_0
sampler_finish(r) ==
    /\ sam[r].pc = "run"
    /\ sam[r].i = sin.T
    /\ sam' = [sam EXCEPT ![r] = [@ EXCEPT !.pc = "done"]]
    /\ UNCHANGED <<modelVars, frame, elboVars, sin, sch, shp>>

NoSampler ==
    [rng |-> <<>>, T |-> 1, z_T |-> ZeroField, conditioning |-> None,
     mask |-> [b \in Batch |-> [p \in Points |-> FALSE]]]

\* the schedule as configured by default, and with its endpoints exchanged
SamplerConfigs ==
    {[c EXCEPT !.gamma_min = g[1], !.gamma_max = g[2]] :
        c \in {d \in Configs : /\ d.timesteps >= 1
                               /\ d.n_classes \in {0, MaxClasses}
                               /\ d.noise_schedule \in {"learned_linear", "scalar"}
                               /\ ~d.antithetic_time_sampling
                               /\ ~d.latent_diffusion},
        g \in {<<gamma_min_default, gamma_max_default>>,
               <<gamma_max_default, gamma_min_default>>}}

SamplerInputs(c) ==
    [rng : {PRNGKey(n) : n \in 0 .. MaxSeed},
     T : {c.timesteps},
     z_T : {[b \in Batch |-> [p \in Points |-> Int2R(v[b])]] :
                v \in [Batch -> {-1, 1}]},
     conditioning : {None, [present |-> TRUE, vec |-> <<1>>]},
     mask : {[b \in Batch |-> [p \in Points |-> TRUE]],
             [b \in Batch |-> [p \in Points |-> p = 1]]}]


\* ------------------------------------------------------------------------
\* The schedule the model constructs
\* ------------------------------------------------------------------------
NoEval == [pc |-> "idle", t1 |-> Zero, t2 |-> Zero, g1 |-> Zero, g2 |-> Zero]

TimeGrid == {Rat(k, Fine) : k \in 0 .. Fine}

\* the optimizer moves the scalar schedule's slope, which stays >= 0
train_scalar ==
    /\ constructed
    /\ gamma.kind = "NoiseScheduleScalar"
    /\ sch.pc = "idle"
    /\ \E a \in 0 .. 2 * MaxGamma : gamma' = [gamma EXCEPT !.a = a]
    /\ UNCHANGED <<cfg, constructed, embedding_class, frame, elboVars,
                   samplerVars, sch, shp>>

\* lines 131-132: gammat at two times of the grid, t1 <= t2
gamma_eval ==
    /\ constructed
    /\ ~gamma_missing
    /\ \E t1 \in TimeGrid : \E t2 \in TimeGrid :
          /\ RLe(t1, t2)
          /\ sch' = [pc |-> "done", t1 |-> t1, t2 |-> t2,
                     g1 |-> gammat(t1), g2 |-> gammat(t2)]
    /\ UNCHANGED <<modelVars, frame, elboVars, samplerVars, shp>>

ScheduleConfigs ==
    {[c EXCEPT !.gamma_min = lo, !.gamma_max = hi] :
        c \in {d \in Configs : /\ d.timesteps = 1
                               /\ d.noise_schedule \in {"learned_linear", "scalar"}
                               /\ ~d.antithetic_time_sampling
                               /\ ~d.latent_diffusion
                               /\ d.n_classes = 0},
        lo \in -MaxGamma .. MaxGamma,
        hi \in -MaxGamma .. MaxGamma}


\* The inputs of an elbo call
XValues == {One, NaN}
\* the first batch element is a real sample, the others may hold NaN padding
ElboX == {x \in [Batch -> [Points -> XValues]] : \A p \in Points : x[1][p] = One}
\* its first point is valid; every other point may be padding
ElboMask == {m \in [Batch -> [Points -> BOOLEAN]] : m[1][1]}
\* embed only asks whether n_classes is positive
ElboConfigs ==
    {c \in Configs : /\ c.timesteps >= 1
                     /\ c.n_classes \in {0, MaxClasses}
                     /\ c.noise_schedule = "learned_linear"
                     /\ ~c.antithetic_time_sampling}
ElboConditionings == {None, [present |-> TRUE, vec |-> <<1>>]}
ElboInputs ==
    [rng : {PRNGKey(n) : n \in 0 .. MaxSeed},
     x : ElboX,
     conditioning : ElboConditionings,
     mask : ElboMask,
     steps : 1 .. MaxSteps]
NoElbo ==
    [rng |-> <<>>, x |-> ZeroField, conditioning |-> None,
     mask |-> [b \in Batch |-> [p \in Points |-> FALSE]], steps |-> 1]

\* ------------------------------------------------------------------------
\* Shapes of what __call__ and elbo return, for x of shape [B, N, D]
\* ------------------------------------------------------------------------
NoShapes == [op |-> "none", x |-> <<>>, d_embedding |-> 0, ret |-> <<>>]

\* numpy broadcasting of two shapes of the same rank (the cases met here)
Broadcast(a, b) == [k \in 1 .. Len(a) |-> IF a[k] = 1 THEN b[k] ELSE a[k]]

\* lines 42-47: nn.Dense maps the last axis, and only under latent_diffusion
Encoder_shape(c, e, x) ==
    IF c.latent_diffusion THEN <<x[1], x[2], e>> ELSE x
\* lines 58-63, with d_output = d_feature, the last axis of x
Decoder_shape(c, d, z) ==
    IF c.latent_diffusion THEN <<z[1], z[2], d>> ELSE z

\* lines 138-143: log_prob(x) has the shape of loc broadcast with x
recon_loss_shape(c, x, f) == Broadcast(Decoder_shape(c, x[3], f), x)
\* lines 150-154: elementwise in f
latent_loss_shape(f) == f

\* the diffusion loss reduced over its point and feature axes
diffusion_loss_shape_summed(t, f) == <<f[1]>>

\* lines 160-173: expm1(...)[:, None, None] times the elementwise error;
\* t is the shape of the time vector
diffusion_loss_shape(t, f) == Broadcast(<<t[1], 1, 1>>, f)

\* lines 177-204: the returned triple, in its order
call_shapes(c, e, x) ==
    LET f == Encoder_shape(c, e, x)
    IN  <<[name |-> "loss_diff", shape |-> diffusion_loss_shape(<<x[1]>>, f)],
          [name |-> "loss_klz", shape |-> latent_loss_shape(f)],
          [name |-> "loss_recon", shape |-> recon_loss_shape(c, x, f)]>>

\* (loss * mask[..., None]).sum((-1, -2)) with mask of shape [B, N]
masked_sum_shape(loss) == <<Broadcast(loss, <<loss[1], loss[2], 1>>)[1]>>

\* likelihood.py lines 8-33: the point-sums have shape [B]; .mean() is a scalar
elbo_shape(c, e, x) ==
    LET f == Encoder_shape(c, e, x)
        diff == masked_sum_shape(diffusion_loss_shape(<<1>>, f))
        vlb == Broadcast(Broadcast(masked_sum_shape(recon_loss_shape(c, x, f)),
                                   masked_sum_shape(latent_loss_shape(f))), diff)
    IN  IF Len(vlb) = 1 THEN <<>> ELSE vlb

ShapeInputs ==
    [op : {"none"},
     x : {<<b, n, d>> : b \in 1 .. MaxB, n \in 1 .. MaxN, d \in 1 .. MaxD},
     d_embedding : 1 .. MaxE,
     ret : {<<>>}]

shape_call ==
    /\ shp.op = "none"
    /\ shp' = [shp EXCEPT !.op = "__call__",
                 !.ret = call_shapes(cfg, shp.d_embedding, shp.x)]
    /\ UNCHANGED <<modelVars, frame, elboVars, samplerVars, sch>>

shape_elbo ==
    /\ shp.op = "none"
    /\ shp' = [shp EXCEPT !.op = "elbo",
                 !.ret = elbo_shape(cfg, shp.d_embedding, shp.x)]
    /\ UNCHANGED <<modelVars, frame, elboVars, samplerVars, sch>>

\* Two calls of elbo on one constructed model with the same arguments, one
\* per loop strategy
InitElbo ==
    /\ cfg \in ElboConfigs
    /\ constructed = TRUE
    /\ gamma = setup_gamma(cfg)
    /\ embedding_class = setup_embedding_class(cfg)
    /\ frame = NewFrame("none", None)
    /\ ein \in ElboInputs
    /\ elbo = [u \in Strategy |-> [IdleElbo EXCEPT !.pc = "start"]]
    /\ sin = NoSampler
    /\ sam = [r \in Runs |-> IdleRun]
    /\ sch = NoEval
    /\ shp = NoShapes

NextElbo ==
    \/ \E u \in Strategy : elbo_prologue(u)
    \/ elbo_fori_loop
    \/ elbo_unrolled
    \/ \E u \in Strategy : elbo_return(u)

SpecElbo == InitElbo /\ [][NextElbo]_vars

\* Two runs of the sampler on one constructed model, from the same seed,
\* initial noise, conditioning and mask
InitSampler ==
    /\ cfg \in SamplerConfigs
    /\ constructed = TRUE
    /\ gamma = setup_gamma(cfg)
    /\ embedding_class = setup_embedding_class(cfg)
    /\ frame = NewFrame("none", None)
    /\ ein = NoElbo
    /\ elbo = [u \in Strategy |-> IdleElbo]
    /\ sin \in SamplerInputs(cfg)
    /\ sam = [r \in Runs |-> [IdleRun EXCEPT !.pc = "run", !.z = sin.z_T]]
    /\ sch = NoEval
    /\ shp = NoShapes

NextSampler ==
    \/ \E r \in Runs : sampler_step(r)
    \/ \E r \in Runs : sampler_finish(r)

SpecSampler == InitSampler /\ [][NextSampler]_vars

InitSchedule ==
    /\ cfg \in {c \in ScheduleConfigs : c.gamma_min < c.gamma_max}
    /\ constructed = FALSE
    /\ gamma = Unset
    /\ embedding_class = FALSE
    /\ frame = NewFrame("none", None)
    /\ ein = NoElbo
    /\ elbo = [u \in Strategy |-> IdleElbo]
    /\ sin = NoSampler
    /\ sam = [r \in Runs |-> IdleRun]
    /\ sch = NoEval
    /\ shp = NoShapes

NextSchedule ==
    \/ setup
    \/ train_scalar
    \/ gamma_eval

SpecSchedule == InitSchedule /\ [][NextSchedule]_vars

InitShapes ==
    /\ cfg \in {c \in Configs : /\ c.timesteps = 1
                                /\ c.n_classes = 0
                                /\ c.noise_schedule = "learned_linear"
                                /\ ~c.antithetic_time_sampling}
    /\ constructed = TRUE
    /\ gamma = setup_gamma(cfg)
    /\ embedding_class = setup_embedding_class(cfg)
    /\ frame = NewFrame("none", None)
    /\ ein = NoElbo
    /\ elbo = [u \in Strategy |-> IdleElbo]
    /\ sin = NoSampler
    /\ sam = [r \in Runs |-> IdleRun]
    /\ sch = NoEval
    /\ shp \in ShapeInputs

NextShapes ==
    \/ shape_call
    \/ shape_elbo

SpecShapes == InitShapes /\ [][NextShapes]_vars

Init ==
    /\ cfg \in Configs
    /\ constructed = FALSE
    /\ gamma = Unset
    /\ embedding_class = FALSE
    /\ frame = NewFrame("none", None)
    /\ ein = NoElbo
    /\ elbo = [u \in Strategy |-> IdleElbo]
    /\ sin = NoSampler
    /\ sam = [r \in Runs |-> IdleRun]
    /\ sch = NoEval
    /\ shp = NoShapes

Next ==
    \/ setup
    \/ call_begin
    \/ call_encode
    \/ call_recon_loss
    \/ call_latent_loss
    \/ call_sample_t
    \/ call_embed
    \/ call_diffusion_loss
    \/ call_return
    \/ embed_call

Spec == Init /\ [][Next]_vars

\* ------------------------------------------------------------------------
\* Properties of __call__, embed and setup (under Spec)
\* ------------------------------------------------------------------------

\* C1: a __call__ with conditioning present invokes embed exactly once in
\* all, counting the invocations inside encode, recon_loss/decode and the
\* diffusion-loss path.
C1_EmbedOncePerCall ==
    (frame.op = "__call__" /\ frame.pc = "returned" /\ frame.conditioning.present)
        => frame.embed_calls = 1

\* The four rows of the embedder's policy table
PolicyTable(c, conditioning) ==
    IF ~conditioning.present THEN EmbNone
    ELSE IF c.n_classes > 0 /\ Len(conditioning.vec) > 1
    THEN EmbValue(class_embedding(conditioning.vec[1])
                  + context_embedding(SubSeq(conditioning.vec, 2, Len(conditioning.vec))))
    ELSE IF c.n_classes > 0 /\ Len(conditioning.vec) = 1
    THEN EmbValue(class_embedding(conditioning.vec[1]))
    ELSE IF c.n_classes = 0
    THEN EmbValue(context_embedding(conditioning.vec))
    ELSE EmbNone

\* C6: embed follows the policy table for every configured n_classes and
\* every conditioning input, and absent conditioning returns None without
\* raising, whatever n_classes is.
C6_EmbedPolicyTable ==
    (frame.op = "embed" /\ frame.pc \in {"returned", "raised"})
        => /\ frame.pc = "returned"
           /\ frame.ret = PolicyTable(cfg, frame.conditioning)

\* C7: a noise_schedule name other than "learned_linear" or "scalar" fails
\* in setup: no model is constructed without a schedule, and no later use
\* of gamma is where the failure first shows.
C7_UnknownScheduleFailsAtSetup ==
    /\ constructed => cfg.noise_schedule \in {"learned_linear", "scalar"}
    /\ constructed => ~gamma_missing
    /\ ~(frame.op = "__call__" /\ frame.pc = "raised" /\ gamma_missing)

\* C8: timesteps <= 0 is rejected at construction, so nothing ever runs
\* with T <= 0.
C8_NonPositiveTimestepsRejected ==
    /\ constructed => cfg.timesteps > 0
    /\ (frame.op = "__call__" /\ frame.discretized) => frame.T > 0

\* ------------------------------------------------------------------------
\* Properties of elbo (under SpecElbo)
\* ------------------------------------------------------------------------
MinOf(a, b) == IF a <= b THEN a ELSE b

\* C2: with the same arguments the unrolled and the fori_loop integration go
\* through the same generator states: iteration i splits the carried key
\* once, hands the same sub-key to diffusion_loss at time i/steps, adds the
\* same term, and both return the same scalar after exactly `steps` draws.
C2_LoopStrategiesAgree ==
    LET u == elbo[TRUE]
        l == elbo[FALSE]
    IN  /\ \A k \in 1 .. MinOf(Len(u.handed), Len(l.handed)) :
              u.handed[k] = l.handed[k]
        /\ \A w \in Strategy : \A k \in 1 .. Len(elbo[w].handed) :
              /\ elbo[w].handed[k][2] = Rat(k - 1, ein.steps)
              /\ \A j \in 1 .. Len(elbo[w].handed) :
                    j # k => elbo[w].handed[j][1] # elbo[w].handed[k][1]
        /\ \A w \in Strategy : Len(elbo[w].handed) = elbo[w].i
        /\ (u.pc = "loop" /\ l.pc = "loop" /\ u.i = l.i)
              => (u.rng = l.rng /\ u.loss_diff = l.loss_diff)
        /\ (u.pc = "returned" /\ l.pc = "returned")
              => /\ u.ret = l.ret
                 /\ Len(u.handed) = ein.steps
                 /\ Len(l.handed) = ein.steps

C2_Witness ==
    /\ elbo[TRUE].pc = "returned" /\ elbo[FALSE].pc = "returned"
    /\ ein.steps >= 2
    /\ ~IsNaN(elbo[TRUE].ret)
    /\ elbo[FALSE].loss_diff[1] # Zero

AllFalse(b) == \A p \in Points : ~ein.mask[b][p]

\* C3: a batch element whose mask is all False contributes exactly zero to
\* the recon, latent and diffusion point-sums, whatever its features are,
\* NaN included.
C3_MaskedElementContributesZero ==
    \A u \in Strategy : \A b \in Batch :
        (elbo[u].pc \in {"loop", "returned"} /\ AllFalse(b))
            => /\ masked_sum(elbo[u].loss_recon, ein.mask)[b] = Zero
               /\ masked_sum(elbo[u].loss_klz, ein.mask)[b] = Zero
               /\ elbo[u].loss_diff[b] = Zero

\* The key carried into iteration i, and the sub-key iteration i draws with
RECURSIVE Carried(_)
Carried(i) == IF i = 0 THEN Append(ein.rng, 0) ELSE Append(Carried(i - 1), 0)
SubKey(i) == Append(Carried(i), 1)

Weight(b, p) == IF ein.mask[b][p] THEN One ELSE Zero
PointSum(loss, b) ==
    RSum([p \in Points |-> RMul(loss[b][p], Weight(b, p))], Points)

\* -mean_b (R_b + L_b + D_b), D_b the average over the grid i/steps
ElboReference ==
    LET f == encode(cfg, ein.x, ein.conditioning)
        cond == embed(cfg, ein.conditioning)
        R == recon_loss(cfg, ein.x, f, ein.conditioning, Append(ein.rng, 0))
        L == latent_loss(cfg, f)
        D(b) == RMul(Rat(1, ein.steps),
                     RSum([i \in 0 .. ein.steps - 1 |->
                              PointSum(diffusion_loss(cfg, Rat(i, ein.steps), f,
                                                      cond, ein.mask, SubKey(i)), b)],
                          0 .. ein.steps - 1))
        total == RSum([b \in Batch |->
                          RAdd(RAdd(PointSum(R, b), PointSum(L, b)), D(b))], Batch)
    IN  RNeg(RMul(total, Rat(1, Cardinality(Batch))))

\* C9: elbo returns -mean over the batch of (R_b + L_b + D_b), with D_b the
\* mask-weighted diffusion loss averaged (not summed) over the grid i/steps,
\* i = 0..steps-1, a grid that does not depend on the model's timesteps.
C9_ElboIsNegativeBatchMean ==
    \A u \in Strategy :
        elbo[u].pc = "returned"
            => /\ elbo[u].ret = ElboReference
               /\ \A k \in 1 .. ein.steps :
                     elbo[u].handed[k][2] = Rat(k - 1, ein.steps)

C9_Witness ==
    /\ elbo[TRUE].pc = "returned"
    /\ ein.steps >= 2
    /\ ein.steps # cfg.timesteps
    /\ ~IsNaN(elbo[TRUE].ret)
    /\ elbo[TRUE].ret # Zero
    /\ \E b \in Batch : \E p \in Points : ~ein.mask[b][p]

\* C10: one elbo call invokes the conditioning embedder once, the encoder
\* once, and recon_loss and latent_loss once each, for every steps and
\* either loop strategy.
C10_OncePerElbo ==
    \A u \in Strategy :
        elbo[u].pc = "returned"
            => /\ elbo[u].embed_calls = 1
               /\ elbo[u].encoder_calls = 1
               /\ elbo[u].recon_calls = 1
               /\ elbo[u].latent_calls = 1

\* ------------------------------------------------------------------------
\* Properties of the sampler (under SpecSampler)
\* ------------------------------------------------------------------------

C11_CallReturnsBatchVectors ==
    /\ (shp.op = "__call__" /\ ~cfg.latent_diffusion)
          => /\ <<shp.ret[1].name, shp.ret[2].name, shp.ret[3].name>>
                   = <<"loss_diff", "loss_klz", "loss_recon">>
             /\ \A k \in 1 .. 3 : shp.ret[k].shape = <<shp.x[1]>>
    /\ shp.op = "elbo" => shp.ret = <<>>

\* C11 as amended: for x of shape [B, N, D] without latent diffusion,
\* __call__ returns (diffusion_loss, latent_loss, recon_loss), each of shape
\* [B, N, D] (the sum over points and features is left to the caller), and
\* elbo returns a scalar.
C11_CallReturnsPointwiseTensors ==
    /\ (shp.op = "__call__" /\ ~cfg.latent_diffusion)
          => /\ <<shp.ret[1].name, shp.ret[2].name, shp.ret[3].name>>
                   = <<"loss_diff", "loss_klz", "loss_recon">>
             /\ \A k \in 1 .. 3 : shp.ret[k].shape = shp.x
    /\ shp.op = "elbo" => shp.ret = <<>>

C11_Witness ==
    /\ shp.op = "__call__"
    /\ ~cfg.latent_diffusion
    /\ shp.x = <<2, 4, 3>>
    /\ shp.ret[1].shape = <<2, 4, 3>>

\* ------------------------------------------------------------------------
\* Properties of the training-time discretisation (under Spec)
\* ------------------------------------------------------------------------
Dist(a, b) == IF RLe(a, b) THEN RSub(b, a) ELSE RSub(a, b)

\* C12 as stated: with T >= 1, every drawn time t in [0, 1) is snapped by
\* __call__ to one of the T grid points 1/T, 2/T, ..., 1, and to the grid
\* point nearest to t.
C12_SnappedToNearestGridPoint ==
    (frame.op = "__call__" /\ frame.discretized /\ frame.T >= 1)
       => \A b \in Batch :
             /\ frame.t[b] \in {Rat(k, frame.T) : k \in 1 .. frame.T}
             /\ \A k \in 1 .. frame.T :
                   RLe(Dist(frame.raw[b], frame.t[b]),
                       Dist(frame.raw[b], Rat(k, frame.T)))

\* C12 as amended: with T >= 1, every drawn time t in [0, 1) is snapped by
\* __call__ to the smallest multiple of 1/T that is not below t: the value
\* is one of 0, 1/T, ..., 1, it is 0 only for t = 0, and it exceeds t by
\* less than 1/T.
C12_SnappedUpToGrid ==
    (frame.op = "__call__" /\ frame.discretized /\ frame.T >= 1)
       => \A b \in Batch :
             /\ frame.t[b] \in {Rat(k, frame.T) : k \in 0 .. frame.T}
             /\ RLe(frame.raw[b], frame.t[b])
             /\ RLt(RSub(frame.t[b], frame.raw[b]), Rat(1, frame.T))
             /\ frame.t[b] = Zero <=> frame.raw[b] = Zero

C12_Witness ==
    /\ frame.op = "__call__" /\ frame.discretized /\ frame.T = MaxT
    /\ \E b \in Batch : frame.raw[b] = Zero /\ frame.t[b] = Zero
    /\ \E b \in Batch : frame.raw[b] # Zero /\ frame.t[b] # frame.raw[b]
                        /\ frame.t[b] # One

\* ------------------------------------------------------------------------
\* Properties of the sampler's time grid (under SpecSampler)
\* ------------------------------------------------------------------------
InUnit(x) == RLe(Zero, x) /\ RLe(x, One)

\* C13: driven with i = 0, 1, ..., T-1, sample_step walks the time grid
\* once and in order: step 0 has t = 1, every step has s = t - 1/T, the s of
\* a step is the t of the next, t and s lie in [0, 1], and a finished run
\* has taken exactly T steps, the last with s = 0.
C13_SamplerWalksGridOnce ==
    \A r \in Runs :
       LET tr == sam[r].trajectory
       IN  /\ Len(tr) = sam[r].i /\ Len(tr) <= sin.T
           /\ \A k \in 1 .. Len(tr) :
                 /\ tr[k].t = Rat(sin.T - (k - 1), sin.T)
                 /\ tr[k].s = RSub(tr[k].t, Rat(1, sin.T))
                 /\ InUnit(tr[k].t) /\ InUnit(tr[k].s)
                 /\ k = 1 => tr[k].t = One
                 /\ k > 1 => tr[k].t = tr[k - 1].s
           /\ sam[r].pc = "done" => /\ Len(tr) = sin.T
                                    /\ tr[sin.T].s = Zero

C13_Witness ==
    \E r \in Runs :
       /\ sam[r].pc = "done"
       /\ sin.T = MaxT
       /\ Len(sam[r].trajectory) = MaxT
       /\ sam[r].trajectory[1].t = One
       /\ sam[r].trajectory[MaxT].s = Zero

C14_KeysUsedOnce ==
    \A u \in Strategy :
       LET e == elbo[u]
       IN  /\ \A k \in 1 .. Len(e.drawn) :
                 /\ e.drawn[k] \notin e.was_split
                 /\ \E p \in e.was_split :
                       e.drawn[k] \in {split(p)[1], split(p)[2]}
           /\ \A j, k \in 1 .. Len(e.drawn) :
                 j # k => e.drawn[j] # e.drawn[k]

\* C15: every time at which gamma is evaluated lies in [0, 1]: in __call__,
\* in elbo and in sample_step.
C15_GammaTimesInUnitInterval ==
    /\ \A x \in frame.gamma_times : InUnit(x)
    /\ \A u \in Strategy : \A x \in elbo[u].gamma_times : InUnit(x)
    /\ \A r \in Runs : \A k \in 1 .. Len(sam[r].trajectory) :
          InUnit(sam[r].trajectory[k].t) /\ InUnit(sam[r].trajectory[k].s)

====
